---- MODULE Spec2Model ----
(***************************************************************************)
(* Model of the serial task queue (TaskQueue), the redraw coalescing       *)
(* controller built on it (RedrawController), the frame-dropping flow       *)
(* control transform (RendererController) and their collaborators.         *)
(*                                                                         *)
(* Promises are modelled by their settlement state; every promise          *)
(* reaction (a `.then` callback, the resumption after an `await`) is one   *)
(* step, so calls made by the host may interleave between any two          *)
(* reactions.  Task bodies do not call back into the queue that runs them. *)
(***************************************************************************)
EXTENDS Integers, Sequences, FiniteSets, TLC

VARIABLES
    tasks,          \* TaskQueue: one record per enqueue() call, in call order
    ready,          \* TaskQueue.#ready: 0 (undefined) or the call whose promise it holds
    disposed,       \* TaskQueue.#disposed
    started,        \* history: the task bodies invoked, in invocation order
    frames,         \* every VideoFrame created, with its close() count
    lastFrame,      \* RedrawController.#lastFrame: 0 (undefined) or a frame
    pendingRedraw,  \* RedrawController.#pendingRedraw: 0 (undefined) or a token
    aborted,        \* the AbortControllers that were aborted
    ntokens,        \* number of AbortControllers created
    cbLog,          \* history: invocations of the draw callback, in order
    calls           \* history: the draw()/redraw()/dispose() calls made

VARIABLES
    captureFrame,   \* RendererController.#captureFrame: 0 (undefined) or a frame
    nextFrame,      \* RendererController.#nextFrame: 0 (undefined) or a frame
    drawTask,       \* RendererController.#drawTask: "none" (undefined) or "running"
    drawing,        \* the local `frame` of #draw while it awaits enqueue(), else 0
    enq,            \* the promise of that enqueue(): "none", "waiting", "true", "false"
    vframes,        \* every VideoFrame the transform has seen, with its close() count
    rendered,       \* PerformanceCounter: increaseFramesRendered() calls
    skipped,        \* PerformanceCounter: increaseFramesSkipped() calls
    counterDisposed,\* PerformanceCounter: dispose() calls
    readable,       \* state of the output stream
    writable,       \* state of the input stream
    disposals,      \* number of RendererController.dispose() calls
    writes,         \* history: the frames the write handler accepted, in order
    handed,         \* history: the enqueue() calls of the draw loop, in order
    delivered,      \* history: the frames the consumer took, in order
    outEnd,         \* history: the close/abort handlers that reached the output
    storedError,    \* the error the input side is errored (or erroring) with
    cancelSeen,     \* history: what the consumer's cancel() found, else none
    loops           \* history: number of #draw calls started and ended

VARIABLES
    spec,           \* parseTcpSocketSpec: the string passed to it
    parsed          \* parseTcpSocketSpec: what the call produced, once made

pvars == <<spec, parsed>>

\* TangoIndexedDbStorage and the IndexedDB databases it works on.
VARIABLES v1Database, store, database, openDatabasePromise, core, ops

dbvars == <<v1Database, store, database, openDatabasePromise, core, ops>>

rfvars == <<captureFrame, nextFrame, drawTask, drawing, enq, vframes, rendered,
            skipped, counterDisposed, readable, writable, disposals, writes,
            handed, delivered, outEnd, storedError, cancelSeen, loops>>

vars == <<tasks, ready, disposed, started, frames, lastFrame, pendingRedraw,
          aborted, ntokens, cbLog, calls, rfvars, pvars, dbvars>>

\* Bounds of the model: number of enqueue() calls on a TaskQueue, and number
\* of draw()/redraw() calls on a RedrawController.
MaxTasks == 4
MaxCalls == 5
\* Number of frames written to a RendererController, and number of dispose()
\* calls made on it.
MaxWrites == 4
MaxDisposals == 2

---------------------------------------------------------------------------
\* Promise settlement states.  `by` names the task whose failure an error is.
Pending == [tag |-> "pending", by |-> 0]
Fulfilled == [tag |-> "ok", by |-> 0]
Rejected(i) == [tag |-> "err", by |-> i]
DisposedError == [tag |-> "disposed", by |-> 0]
NoPromise == [tag |-> "none", by |-> 0]

IsRejected(p) == p.tag \in {"err", "disposed"}
IsSettled(p) == p.tag = "ok" \/ IsRejected(p)

\* The whole program state as one record, so that the effect of a call that
\* runs several methods in sequence can be composed.
Cur ==
    [tasks |-> tasks, ready |-> ready, disposed |-> disposed,
     started |-> started, frames |-> frames, lastFrame |-> lastFrame,
     pendingRedraw |-> pendingRedraw, aborted |-> aborted,
     ntokens |-> ntokens, cbLog |-> cbLog, calls |-> calls]

Assign(S) ==
    /\ tasks' = S.tasks
    /\ ready' = S.ready
    /\ disposed' = S.disposed
    /\ started' = S.started
    /\ frames' = S.frames
    /\ lastFrame' = S.lastFrame
    /\ pendingRedraw' = S.pendingRedraw
    /\ aborted' = S.aborted
    /\ ntokens' = S.ntokens
    /\ cbLog' = S.cbLog
    /\ calls' = S.calls
    /\ UNCHANGED <<rfvars, pvars, dbvars>>

Running(S) == {j \in DOMAIN S.tasks : S.tasks[j].st = "running"}

---------------------------------------------------------------------------
\* VideoFrame.close() and VideoFrame.clone()
CloseFrame(S, f) ==
    IF f = 0 THEN S ELSE [S EXCEPT !.frames[f].closed = @ + 1]

CloneFrame(S, f, role) ==
    [S EXCEPT !.frames = Append(@, [content |-> S.frames[f].content,
                                    role |-> role, closed |-> 0])]

---------------------------------------------------------------------------
\* What the synchronous part of a task body may do: return a value ("ok"),
\* throw ("throw"), or return a promise that is still pending ("async").
Choices(kind) ==
    CASE kind = "sync" -> {"ok", "throw"}
      [] kind = "async" -> {"async"}
      [] OTHER -> {"ok", "throw", "async"}

\* Whether task() returns a promise: an `async` arrow function always does.
ReturnsPromise(kind, c) == kind \in {"draw", "redraw"} \/ c = "async"

\* A plain task: `task()` of enqueue's caller.
GenericBody(S, i, c) ==
    [S EXCEPT !.tasks[i].st = IF c = "async" THEN "running" ELSE "done",
              !.tasks[i].res = CASE c = "ok" -> Fulfilled
                                 [] c = "throw" -> Rejected(i)
                                 [] OTHER -> Pending]

\* Faulty variant: the frame is closed after a successful draw only (no `finally`).
FinallyClose_OnlyOnSuccess(S, f, cb) ==
    IF cb = "ok" THEN CloseFrame(S, f) ELSE S

\* The `finally { frame.close(); }` of the two task bodies, reached when the
\* callback has thrown ("threw") or the awaited promise has settled ("ok",
\* "fail").
FinallyClose(S, f, cb) == CloseFrame(S, f)

\* The content of the frame passed to the most recent draw() call so far
\* (0 when there was none).
LatestDrawn(S) ==
    LET ds == {k \in DOMAIN S.calls : S.calls[k].op = "draw"}
    IN  IF ds = {} THEN 0
        ELSE S.frames[S.calls[CHOOSE k \in ds : \A l \in ds : l <= k].frame].content

\* `await this.#draw(frame)` up to the suspension of the task: the callback
\* is invoked with the frame; when it throws synchronously the `finally`
\* block closes the frame at once and the task's promise is rejected.
InvokeDraw(S, i, f, c) ==
    LET S1 == [S EXCEPT !.cbLog = Append(@,
                   [task |-> i, frame |-> f, latest |-> LatestDrawn(S),
                    active |-> {j \in DOMAIN S.tasks : S.tasks[j].cb = "active"}]),
                        !.tasks[i].frame = f]
    IN  IF c = "throw"
        THEN [FinallyClose(S1, f, "threw") EXCEPT !.tasks[i].st = "done",
                                       !.tasks[i].res = Rejected(i),
                                       !.tasks[i].cb = "threw"]
        ELSE [S1 EXCEPT !.tasks[i].st = "running",
                        !.tasks[i].cb = IF c = "async" THEN "active" ELSE "ok"]

\* The task draw() enqueues.
DrawBody(S, i, c) == InvokeDraw(S, i, S.tasks[i].frame, c)

\* The task redraw() enqueues.
RedrawBody(S, i, c) ==
    IF S.tasks[i].token \in S.aborted
    THEN [S EXCEPT !.tasks[i].st = "done", !.tasks[i].res = Fulfilled]
    ELSE LET S1 == [S EXCEPT !.pendingRedraw = 0]
         IN  IF S1.lastFrame = 0
             THEN \* `this.#lastFrame!.clone()` on undefined: a TypeError
                  [S1 EXCEPT !.tasks[i].st = "done",
                             !.tasks[i].res = Rejected(i)]
             ELSE LET S2 == CloneFrame(S1, S1.lastFrame, "redraw")
                  IN  InvokeDraw(S2, i, Len(S2.frames), c)

\* task(): the body starts.
StartTask(S, i, c) ==
    LET S1 == [S EXCEPT !.started = Append(@,
                   [id |-> i, active |-> Running(S), disp |-> S.disposed]),
                        !.tasks[i].invoked = TRUE]
    IN  CASE S.tasks[i].kind = "draw" -> DrawBody(S1, i, c)
          [] S.tasks[i].kind = "redraw" -> RedrawBody(S1, i, c)
          [] OTHER -> GenericBody(S1, i, c)

---------------------------------------------------------------------------
\* TaskQueue.enqueue

NewTask(kind, bail, frame, token) ==
    [kind |-> kind, bail |-> bail, frame |-> frame, token |-> token,
     via |-> "idle", prev |-> 0, st |-> "queued", invoked |-> FALSE,
     res |-> Pending, rdy |-> NoPromise, cb |-> "none", atDispose |-> "none"]

\* (history field: atDispose is the task's state when dispose() was called)

\* Faulty variant: the idle path retains every synchronous failure.
IdleCatchReady_AlwaysKept(bail, i) == Rejected(i)

\* The `catch` of the idle path: the promise left in #ready when task() threw.
IdleCatchReady(bail, i) == IF bail THEN Rejected(i) ELSE NoPromise

\* Faulty variant: the idle path swallows the failure whatever the bail flag is.
IdleReaction_AlwaysSwallow(bail, r) == Fulfilled

\* The rejection handler the idle path attaches to the task's promise.
IdleReaction(bail, r) ==
    IF r.tag = "ok" THEN Fulfilled ELSE IF bail THEN r ELSE Fulfilled

\* Faulty variant: the chained path rethrows whatever the bail flag is.
ChainReaction_AlwaysRethrow(bail, disp, r) ==
    IF r.tag = "ok" THEN Fulfilled ELSE r

\* The rejection handler the chained path attaches to `result`.
ChainReaction(bail, disp, r) ==
    IF r.tag = "ok" THEN Fulfilled ELSE IF bail \/ disp THEN r ELSE Fulfilled

\* Faulty variant: the task is run without waiting for #ready.
ThenMayRun_NoWait(p) == TRUE

\* `this.#ready.then(...)`: the callback waits for #ready to settle.
ThenMayRun(p) == IsSettled(p)

\* Faulty variant: the task is also run when #ready is rejected.
ThenOutcome_RunsOnRejection(p, disp) ==
    IF disp THEN "disposed" ELSE "run"

\* Faulty variant: the callback does not check #disposed.
ThenOutcome_NoDisposedCheck(p, disp) ==
    IF IsRejected(p) THEN "skip" ELSE "run"

\* What `this.#ready.then(() => {...})` does once #ready is settled as p.
ThenOutcome(p, disp) ==
    IF IsRejected(p) THEN "skip" ELSE IF disp THEN "disposed" ELSE "run"

\* `if (!this.#ready)`
IsIdle(S) == S.ready = 0

Enqueue(S, kind, bail, frame, token, c) ==
    LET i == Len(S.tasks) + 1
        t == NewTask(kind, bail, frame, token)
    IN  IF S.disposed
        THEN [S EXCEPT !.tasks = Append(@, [t EXCEPT !.via = "thrown",
                                                     !.st = "done",
                                                     !.res = DisposedError])]
        ELSE IF IsIdle(S)
        THEN LET S1 == StartTask([S EXCEPT !.tasks = Append(@, t)], i, c)
             IN  IF ReturnsPromise(kind, c)
                 THEN [S1 EXCEPT !.tasks[i].rdy = Pending, !.ready = i]
                 ELSE IF S1.tasks[i].res.tag = "ok"
                 THEN S1
                 ELSE LET p == IdleCatchReady(bail, i)
                      IN  [S1 EXCEPT !.tasks[i].rdy = p,
                                     !.ready = IF p = NoPromise THEN S.ready ELSE i]
        ELSE [S EXCEPT !.tasks = Append(@, [t EXCEPT !.via = "chain",
                                                     !.prev = S.ready,
                                                     !.rdy = Pending]),
                       !.ready = i]

\* Faulty variant: dispose() settles the running task with the disposed error.
DisposeQueue_CancelsRunning(S) ==
    [S EXCEPT !.disposed = TRUE,
              !.tasks = [j \in DOMAIN S.tasks |->
                            IF S.disposed THEN S.tasks[j]
                            ELSE IF S.tasks[j].st = "running"
                            THEN [S.tasks[j] EXCEPT !.atDispose = "running",
                                                    !.st = "done",
                                                    !.res = DisposedError]
                            ELSE [S.tasks[j] EXCEPT !.atDispose = S.tasks[j].st]]]

\* TaskQueue.dispose
DisposeQueue(S) ==
    [S EXCEPT !.disposed = TRUE,
              !.tasks = [j \in DOMAIN S.tasks |->
                            IF S.disposed THEN S.tasks[j]
                            ELSE [S.tasks[j] EXCEPT !.atDispose = S.tasks[j].st]]]

---------------------------------------------------------------------------
\* Steps of the promise machinery of a TaskQueue

\* The callback of `this.#ready.then(...)` of call i runs.
RunThen(i) ==
    /\ tasks[i].via = "chain"
    /\ tasks[i].st = "queued"
    /\ ThenMayRun(tasks[tasks[i].prev].rdy)
    /\ LET p == tasks[tasks[i].prev].rdy
           o == ThenOutcome(p, disposed)
       IN  \/ /\ o = "skip"
              /\ tasks' = [tasks EXCEPT ![i].st = "done", ![i].res = p]
              /\ UNCHANGED <<ready, disposed, started, frames, lastFrame,
                             pendingRedraw, aborted, ntokens, cbLog, calls, rfvars, pvars, dbvars>>
           \/ /\ o = "disposed"
              /\ tasks' = [tasks EXCEPT ![i].st = "done", ![i].res = DisposedError]
              /\ UNCHANGED <<ready, disposed, started, frames, lastFrame,
                             pendingRedraw, aborted, ntokens, cbLog, calls, rfvars, pvars, dbvars>>
           \/ /\ o = "run"
              /\ \E c \in Choices(tasks[i].kind) : Assign(StartTask(Cur, i, c))

\* The promise a plain asynchronous task returned settles.
Settle(i) ==
    /\ tasks[i].kind = "async"
    /\ tasks[i].st = "running"
    /\ \E r \in {Fulfilled, Rejected(i)} :
          tasks' = [tasks EXCEPT ![i].st = "done", ![i].res = r]
    /\ UNCHANGED <<ready, disposed, started, frames, lastFrame, pendingRedraw,
                   aborted, ntokens, cbLog, calls, rfvars, pvars, dbvars>>

\* The handlers attached to call i's result run and settle the promise the
\* call stored in #ready.
React(i) ==
    /\ tasks[i].rdy = Pending
    /\ IsSettled(tasks[i].res)
    /\ tasks' = [tasks EXCEPT ![i].rdy =
                    IF tasks[i].via = "idle"
                    THEN IdleReaction(tasks[i].bail, tasks[i].res)
                    ELSE ChainReaction(tasks[i].bail, disposed, tasks[i].res)]
    /\ UNCHANGED <<ready, disposed, started, frames, lastFrame, pendingRedraw,
                   aborted, ntokens, cbLog, calls, rfvars, pvars, dbvars>>

---------------------------------------------------------------------------
\* Specification of a TaskQueue used with plain tasks

TQEnqueue ==
    /\ Len(tasks) < MaxTasks
    /\ \E kind \in {"sync", "async"}, bail \in BOOLEAN :
          \E c \in Choices(kind) : Assign(Enqueue(Cur, kind, bail, 0, 0, c))

TQDispose ==
    /\ ~disposed
    /\ Assign(DisposeQueue(Cur))

\* No call made yet.
NotParsed == [tag |-> "none"]

\* No version-1 database in the browser's storage.
NoV1Database == [exists |-> FALSE, keys |-> <<>>]
\* `undefined`, as the value of v1Keys
NoKeys == [defined |-> FALSE, keys |-> <<>>]

\* Every component freshly constructed.
Constructed ==
    /\ tasks = <<>>
    /\ ready = 0
    /\ disposed = FALSE
    /\ started = <<>>
    /\ frames = <<>>
    /\ lastFrame = 0
    /\ pendingRedraw = 0
    /\ aborted = {}
    /\ ntokens = 0
    /\ cbLog = <<>>
    /\ calls = <<>>
    /\ captureFrame = 0
    /\ nextFrame = 0
    /\ drawTask = "none"
    /\ drawing = 0
    /\ enq = "none"
    /\ vframes = <<>>
    /\ rendered = 0
    /\ skipped = 0
    /\ counterDisposed = 0
    /\ readable = "open"
    /\ writable = "writable"
    /\ disposals = 0
    /\ writes = <<>>
    /\ handed = <<>>
    /\ delivered = <<>>
    /\ outEnd = <<>>
    /\ storedError = "none"
    /\ cancelSeen = [seen |-> FALSE, input |-> "none", writes |-> 0]
    /\ loops = [started |-> 0, ended |-> 0]
    /\ parsed = NotParsed
    /\ store = [exists |-> FALSE, keys |-> <<>>]
    /\ database = "none"
    /\ openDatabasePromise = "undefined"
    /\ core = [pc |-> "idle", v1Keys |-> NoKeys, error |-> "none"]
    /\ ops = <<>>

Init ==
    /\ Constructed
    /\ spec = <<>>
    /\ v1Database = NoV1Database

Next ==
    \/ TQEnqueue
    \/ TQDispose
    \/ \E i \in DOMAIN tasks : RunThen(i)
    \/ \E i \in DOMAIN tasks : Settle(i)
    \/ \E i \in DOMAIN tasks : React(i)

Spec == Init /\ [][Next]_vars

---------------------------------------------------------------------------
\* RedrawController

\* (history) Whether the task enqueued last has not settled yet.
LastBusy(S) == S.tasks # <<>> /\ S.tasks[Len(S.tasks)].st # "done"

\* Faulty variant: draw() and dispose() do not abort the pending redraw.
AbortPending_Missing(S) == S

\* `this.#pendingRedraw?.abort()`
AbortPending(S) ==
    IF S.pendingRedraw = 0 THEN S
    ELSE [S EXCEPT !.aborted = @ \cup {S.pendingRedraw}]

\* `this.#lastFrame?.close(); this.#lastFrame = frame.clone();`
RetainClone(S, f) ==
    LET S1 == CloneFrame(CloseFrame(S, S.lastFrame), f, "last")
    IN  [S1 EXCEPT !.lastFrame = Len(S1.frames)]

\* RedrawController.draw(frame), with a frame the caller just created.
DrawCall(S, c) ==
    LET S0 == [S EXCEPT !.frames = Append(@, [content |-> Len(S.frames) + 1,
                                              role |-> "arg", closed |-> 0])]
        f == Len(S0.frames)
        S1 == [AbortPending(S0) EXCEPT !.pendingRedraw = 0]
        S2 == RetainClone(S1, f)
        S3 == Enqueue(S2, "draw", TRUE, f, 0, c)
    IN  [S3 EXCEPT !.calls = Append(@,
            [op |-> "draw", pend |-> S.pendingRedraw, last |-> S.lastFrame,
             frame |-> f, task |-> Len(S3.tasks),
             busy |-> LastBusy(S),
             tasksBefore |-> Len(S.tasks), tokensBefore |-> S.ntokens,
             tokensAfter |-> S3.ntokens])]

\* Faulty variant: redraw() does not look at #lastFrame.
RedrawIsNoop_IgnoresLastFrame(S) == S.pendingRedraw # 0

\* Faulty variant: redraw() does not look at #pendingRedraw.
RedrawIsNoop_IgnoresPending(S) == S.lastFrame = 0

\* The early return of redraw().
RedrawIsNoop(S) == S.lastFrame = 0 \/ S.pendingRedraw # 0

\* RedrawController.redraw()
RedrawCall(S, c) ==
    LET S3 == IF RedrawIsNoop(S) THEN S
              ELSE LET k == S.ntokens + 1
                       S1 == [S EXCEPT !.ntokens = k, !.pendingRedraw = k]
                   IN  Enqueue(S1, "redraw", TRUE, 0, k, c)
    IN  [S3 EXCEPT !.calls = Append(@,
            [op |-> "redraw", pend |-> S.pendingRedraw, last |-> S.lastFrame,
             frame |-> 0, task |-> Len(S3.tasks),
             busy |-> LastBusy(S),
             tasksBefore |-> Len(S.tasks), tokensBefore |-> S.ntokens,
             tokensAfter |-> S3.ntokens])]

\* Faulty variant: dispose() closes lastFrame but keeps the reference.
DisposeCall_KeepsLastFrame(S) ==
    LET S1 == AbortPending(S)
        S2 == CloseFrame(S1, S1.lastFrame)
        S3 == DisposeQueue(S2)
    IN  [S3 EXCEPT !.calls = Append(@,
            [op |-> "dispose", pend |-> S.pendingRedraw, last |-> S.lastFrame,
             frame |-> 0, task |-> Len(S3.tasks),
             busy |-> LastBusy(S),
             tasksBefore |-> Len(S.tasks), tokensBefore |-> S.ntokens,
             tokensAfter |-> S3.ntokens])]

\* RedrawController.dispose()
DisposeCall(S) ==
    LET S1 == AbortPending(S)
        S2 == [CloseFrame(S1, S1.lastFrame) EXCEPT !.lastFrame = 0]
        S3 == DisposeQueue(S2)
    IN  [S3 EXCEPT !.calls = Append(@,
            [op |-> "dispose", pend |-> S.pendingRedraw, last |-> S.lastFrame,
             frame |-> 0, task |-> Len(S3.tasks),
             busy |-> LastBusy(S),
             tasksBefore |-> Len(S.tasks), tokensBefore |-> S.ntokens,
             tokensAfter |-> S3.ntokens])]

Draw ==
    /\ Len(calls) < MaxCalls
    /\ \E c \in Choices("draw") : Assign(DrawCall(Cur, c))

Redraw ==
    /\ Len(calls) < MaxCalls
    /\ \E c \in Choices("redraw") : Assign(RedrawCall(Cur, c))

Dispose ==
    /\ Len(calls) < MaxCalls
    /\ Assign(DisposeCall(Cur))

\* The promise the draw callback returned settles.
CallbackSettle(i) ==
    /\ tasks[i].cb = "active"
    /\ \E r \in {"ok", "fail"} : tasks' = [tasks EXCEPT ![i].cb = r]
    /\ UNCHANGED <<ready, disposed, started, frames, lastFrame, pendingRedraw,
                   aborted, ntokens, cbLog, calls, rfvars, pvars, dbvars>>

\* A draw or redraw task resumes after `await this.#draw(frame)`: the
\* `finally` block closes the frame and the task's promise settles.
Resume(i) ==
    /\ tasks[i].st = "running"
    /\ tasks[i].cb \in {"ok", "fail"}
    /\ LET S1 == FinallyClose(Cur, tasks[i].frame, tasks[i].cb)
       IN  Assign([S1 EXCEPT !.tasks[i].st = "done",
                             !.tasks[i].res = IF tasks[i].cb = "ok"
                                              THEN Fulfilled ELSE Rejected(i)])

NextRC ==
    \/ Draw
    \/ Redraw
    \/ Dispose
    \/ \E i \in DOMAIN tasks : RunThen(i)
    \/ \E i \in DOMAIN tasks : CallbackSettle(i)
    \/ \E i \in DOMAIN tasks : Resume(i)
    \/ \E i \in DOMAIN tasks : React(i)

SpecRC == Init /\ [][NextRC]_vars

---------------------------------------------------------------------------
\* RendererController: the flow control transform between the decoder and
\* the renderer.  Frames are numbered in creation order; the n-th write
\* creates the input frame 2n-1 and its capture clone 2n.

tqvars == <<tasks, ready, disposed, started, frames, lastFrame, pendingRedraw,
            aborted, ntokens, cbLog, calls, pvars, dbvars>>

NewVideoFrame(role, content) ==
    [role |-> role, content |-> content, closed |-> 0, how |-> "open"]

\* VideoFrame.close() on f (`?.close()` on undefined does nothing); `how`
\* records which statement released the frame.
Release(fs, f, how) ==
    IF f = 0 THEN fs ELSE [fs EXCEPT ![f].closed = @ + 1, ![f].how = how]

\* Faulty variant: the frame captured for screenshots is not released when
\* the next one replaces it.
ReplaceCapture_Leaks(fs, old) == fs

\* write: `this.#captureFrame?.close()`
ReplaceCapture(fs, old) == Release(fs, old, "replaced")

\* Faulty variant: the written frame itself is kept for screenshots.
CaptureOf_SameObject(f) == f

\* write: `this.#captureFrame = frame.clone()`; the clone of frame f is the
\* frame created right after it.
CaptureOf(f) == f + 1

\* Faulty variant: the frame waiting in the slot is not released when a
\* newer one arrives.
SkipOccupant_Leaks(fs, slot) == fs

\* write: `if (this.#nextFrame) { this.#nextFrame.close(); ... }`
SkipOccupant(fs, slot) == Release(fs, slot, "skipped")

\* Faulty variant: replacing the slot content is not counted as a skip.
SkipCount_Never(n, slot) == n

\* write: `this.#counter.increaseFramesSkipped()` under the same condition
SkipCount(n, slot) == IF slot # 0 THEN n + 1 ELSE n

\* PushReadableStreamController.enqueue(frame): the state of the promise it
\* returns.  After the consumer cancelled it resolves to false; otherwise
\* it stays pending until the consumer takes the frame or cancels.
EnqueueCall(r) == IF r = "cancelled" THEN "false" ELSE "waiting"

\* Faulty variant: the loop does not clear the slot when it takes the frame.
DrawLoop_KeepsSlot(slot, r, h, fs) ==
    IF slot # 0
    THEN [nextFrame |-> slot, drawing |-> slot, enq |-> EnqueueCall(r),
          drawTask |-> "running",
          handed |-> Append(h, [frame |-> slot, closed |-> fs[slot].closed])]
    ELSE [nextFrame |-> 0, drawing |-> 0, enq |-> "none", drawTask |-> "none",
          handed |-> h]

\* #draw from the loop condition to the next suspension: either the slot
\* holds a frame, which is taken out and handed to enqueue(), or the loop
\* ends and clears #drawTask.
DrawLoop(slot, r, h, fs) ==
    IF slot # 0
    THEN [nextFrame |-> 0, drawing |-> slot, enq |-> EnqueueCall(r),
          drawTask |-> "running",
          handed |-> Append(h, [frame |-> slot, closed |-> fs[slot].closed])]
    ELSE [nextFrame |-> 0, drawing |-> 0, enq |-> "none", drawTask |-> "none",
          handed |-> h]

\* Faulty variant: #draw is called whether or not a loop is active.
StartsLoop_Always(dt) == TRUE

\* #tryStartDrawing: `if (!this.#drawTask)`
StartsLoop(dt) == dt = "none"

\* #tryStartDrawing with `slot` just stored in #nextFrame: starts #draw,
\* which runs up to its first await, unless a loop is already there.
TryStartDrawing(slot, r, h, fs) ==
    IF StartsLoop(drawTask)
    THEN DrawLoop(slot, r, h, fs)
    ELSE [nextFrame |-> slot, drawing |-> drawing, enq |-> enq,
          drawTask |-> drawTask, handed |-> h]

\* Faulty variant: #draw ends after one frame without looking at the slot.
LoopBack_ExitsAfterOne(slot, r, h, fs) ==
    [DrawLoop(0, r, h, fs) EXCEPT !.nextFrame = slot]

\* #draw: the end of the `while` body goes back to the loop condition
LoopBack(slot, r, h, fs) == DrawLoop(slot, r, h, fs)

\* Faulty variant: a frame the consumer refused is not released.
RejectedRelease_Leaks(fs, f) == fs

\* #draw: `frame.close()` when enqueue() resolved to false
RejectedRelease(fs, f) == Release(fs, f, "cancelled")

\* Faulty variant: the handlers do not wait for the draw loop.
HandlerMayResume_NoWait(dt) == TRUE

\* close/abort: `await this.#drawTask` is over once the loop has ended (no
\* loop can start while the input side is closing).
HandlerMayResume(dt) == dt = "none"

\* Faulty variant: dispose() leaves the capture frame open.
DisposeFrames_KeepsCapture(fs, cap, slot) ==
    [vframes |-> Release(fs, slot, "disposed"), captureFrame |-> 0,
     nextFrame |-> 0]

\* Faulty variant: dispose() leaves the slot alone.
DisposeFrames_KeepsSlot(fs, cap, slot) ==
    [vframes |-> Release(fs, cap, "disposed"), captureFrame |-> 0,
     nextFrame |-> slot]

\* dispose: both retained frames are closed and forgotten
DisposeFrames(fs, cap, slot) ==
    [vframes |-> Release(Release(fs, cap, "disposed"), slot, "disposed"),
     captureFrame |-> 0, nextFrame |-> 0]

\* The write handler of the input side; the stream calls it only while the
\* input side is writable.
Write ==
    /\ writable = "writable"
    /\ Len(writes) < MaxWrites
    /\ LET f == Len(vframes) + 1
           n == Len(writes) + 1
           fs1 == ReplaceCapture(vframes, captureFrame)
           fs2 == fs1 \o <<NewVideoFrame("input", n),
                           NewVideoFrame("capture", n)>>
           fs3 == SkipOccupant(fs2, nextFrame)
           L == TryStartDrawing(f, readable, handed, fs3)
       IN  /\ vframes' = fs3
           /\ captureFrame' = CaptureOf(f)
           /\ skipped' = SkipCount(skipped, nextFrame)
           /\ nextFrame' = L.nextFrame
           /\ drawing' = L.drawing
           /\ enq' = L.enq
           /\ drawTask' = L.drawTask
           /\ handed' = L.handed
           /\ loops' = IF StartsLoop(drawTask)
                       THEN [loops EXCEPT !.started = @ + 1] ELSE loops
           /\ writes' = Append(writes,
                  [frame |-> f, capture |-> CaptureOf(f), replaced |-> nextFrame,
                   busy |-> drawTask # "none", suspended |-> enq = "waiting",
                   skipped |-> SkipCount(skipped, nextFrame),
                   loops |-> loops'])
    /\ UNCHANGED <<rendered, counterDisposed, readable, writable, disposals,
                   delivered, outEnd, tqvars, storedError, cancelSeen>>

\* WritableStreamDefaultController.error(reason), as called by the abort
\* listener of `start` and by dispose(): a writable stream becomes errored
\* with that reason; a stream whose close handler is running is erroring
\* until the handler ends; one that is aborting, closed or errored ignores it.
ControllerError(w, err, reason) ==
    CASE w = "writable" -> [state |-> "errored", error |-> reason]
      [] w = "closing" -> [state |-> w, error |-> reason]
      [] OTHER -> [state |-> w, error |-> err]

\* Faulty variant: `start` installs no listener on the output's abort signal.
AbortListener_Missing(w, err) == [state |-> w, error |-> err]

\* start: `signal.addEventListener("abort", () => controller.error(signal.reason))`
AbortListener(w, err) == ControllerError(w, err, "cancel")

\* The consumer takes the frame the draw loop is offering.
ConsumerAccept ==
    /\ enq = "waiting"
    /\ readable = "open"
    /\ enq' = "true"
    /\ delivered' = Append(delivered, drawing)
    /\ UNCHANGED <<captureFrame, nextFrame, drawTask, drawing, vframes,
                   rendered, skipped, counterDisposed, readable, writable,
                   disposals, writes, handed, outEnd, tqvars, storedError, cancelSeen, loops>>

\* The consumer cancels the output side: a pending enqueue() resolves to
\* false, and the abort listener installed by `start` errors the input side.
ConsumerCancel ==
    /\ readable = "open"
    /\ readable' = "cancelled"
    /\ enq' = IF enq = "waiting" THEN "false" ELSE enq
    /\ writable' = AbortListener(writable, storedError).state
    /\ storedError' = AbortListener(writable, storedError).error
    /\ cancelSeen' = [seen |-> TRUE, input |-> writable, writes |-> Len(writes)]
    /\ UNCHANGED <<captureFrame, nextFrame, drawTask, drawing, vframes,
                   rendered, skipped, counterDisposed, disposals, writes,
                   handed, delivered, outEnd, tqvars, loops>>

\* Faulty variant: every frame handed to enqueue() counts as rendered.
RenderedCount_Always(n, e) == n + 1

\* #draw: `this.#counter.increaseFramesRendered()` when enqueue() resolved
\* to true
RenderedCount(n, e) == IF e = "true" THEN n + 1 ELSE n

\* #draw resumes after `await enqueue(frame)` and runs to its next await or
\* to its end.
LoopResume ==
    /\ enq \in {"true", "false"}
    /\ LET fs1 == IF enq = "true" THEN vframes
                  ELSE RejectedRelease(vframes, drawing)
           L == LoopBack(nextFrame, readable, handed, fs1)
       IN  /\ rendered' = RenderedCount(rendered, enq)
           /\ vframes' = fs1
           /\ nextFrame' = L.nextFrame
           /\ drawing' = L.drawing
           /\ enq' = L.enq
           /\ drawTask' = L.drawTask
           /\ handed' = L.handed
           /\ loops' = IF L.drawTask = "none"
                       THEN [loops EXCEPT !.ended = @ + 1] ELSE loops
    /\ UNCHANGED <<captureFrame, skipped, counterDisposed, readable, writable,
                   disposals, writes, delivered, outEnd, tqvars, storedError,
                   cancelSeen>>

\* History entry of a close/abort handler: what it finds when it starts
\* ("start") and what its call on the output controller does.
HandlerSees(by, effect) ==
    [by |-> by, effect |-> effect, slot |-> nextFrame, loop |-> drawTask,
     drawing |-> drawing]

\* The producer closes, or aborts, the input side: the handler starts and
\* suspends at `await this.#drawTask`.
CloseStart ==
    /\ writable = "writable"
    /\ writable' = "closing"
    /\ outEnd' = Append(outEnd, HandlerSees("closing", "start"))
    /\ UNCHANGED <<captureFrame, nextFrame, drawTask, drawing, enq, vframes,
                   rendered, skipped, counterDisposed, readable, disposals,
                   writes, handed, delivered, tqvars, storedError, cancelSeen, loops>>

AbortStart ==
    /\ writable = "writable"
    /\ writable' = "aborting"
    /\ storedError' = "abort"
    /\ outEnd' = Append(outEnd, HandlerSees("aborting", "start"))
    /\ UNCHANGED <<captureFrame, nextFrame, drawTask, drawing, enq, vframes,
                   rendered, skipped, counterDisposed, readable, disposals,
                   writes, handed, delivered, tqvars, cancelSeen, loops>>

\* What the handler's call on the output controller does: close() closes an
\* open stream, is ignored after a cancel and throws on a closed one;
\* error() errors an open stream and is ignored otherwise.
OutputEffect(by, r) ==
    IF by = "closing"
    THEN CASE r = "open" -> "closed"
           [] r = "cancelled" -> "ignored"
           [] OTHER -> "threw"
    ELSE IF r = "open" THEN "errored" ELSE "ignored"

\* The close or abort handler resumes after `await this.#drawTask`.
HandlerResume ==
    /\ writable \in {"closing", "aborting"}
    /\ HandlerMayResume(drawTask)
    /\ LET e == OutputEffect(writable, readable)
       IN  /\ readable' = IF e \in {"closed", "errored"} THEN e ELSE readable
           /\ counterDisposed' = IF e = "threw" THEN counterDisposed
                                 ELSE counterDisposed + 1
           /\ writable' = IF writable = "closing" /\ e # "threw"
                          THEN "closed" ELSE "errored"
           /\ storedError' = CASE writable = "aborting" -> storedError
                                [] e = "threw" -> IF storedError = "none"
                                                  THEN "close" ELSE storedError
                                [] OTHER -> "none"
           /\ outEnd' = Append(outEnd, HandlerSees(writable, e))
    /\ UNCHANGED <<captureFrame, nextFrame, drawTask, drawing, enq, vframes,
                   rendered, skipped, disposals, writes, handed, delivered,
                   tqvars, cancelSeen, loops>>

\* RendererController.dispose()
DisposeTransform ==
    /\ disposals < MaxDisposals
    /\ LET D == DisposeFrames(vframes, captureFrame, nextFrame)
       IN  /\ vframes' = D.vframes
           /\ captureFrame' = D.captureFrame
           /\ nextFrame' = D.nextFrame
    /\ counterDisposed' = counterDisposed + 1
    /\ readable' = IF readable = "open" THEN "closed" ELSE readable
    /\ writable' = ControllerError(writable, storedError, "terminated").state
    /\ storedError' = ControllerError(writable, storedError, "terminated").error
    /\ disposals' = disposals + 1
    /\ UNCHANGED <<drawTask, drawing, enq, rendered, skipped, writes, handed,
                   delivered, outEnd, tqvars, cancelSeen, loops>>

NextRF ==
    \/ Write
    \/ ConsumerAccept
    \/ ConsumerCancel
    \/ LoopResume
    \/ CloseStart
    \/ AbortStart
    \/ HandlerResume
    \/ DisposeTransform

SpecRF == Init /\ [][NextRF]_vars

---------------------------------------------------------------------------
\* parseTcpSocketSpec (socket-spec.ts).  A string is a sequence of
\* one-character strings; positions are counted from 0 as in the source.

MaxPort == 65535
\* Length up to which every string over Alphabet is tried.
MaxLen == 3

Alphabet == {"1", "6", "-", ":", ".", "[", "]", "a"}
Digits == <<"0", "1", "2", "3", "4", "5", "6", "7", "8", "9">>

At(str, i) == str[i + 1]
IsDigit(c) == \E d \in DOMAIN Digits : Digits[d] = c
DigitOf(c) == (CHOOSE d \in DOMAIN Digits : Digits[d] = c) - 1

Undefined == [def |-> FALSE, val |-> 0]
Number(n) == [def |-> TRUE, val |-> n]

\* String.prototype.substring(from, to) with 0 <= from <= to
Substring(str, from, to) ==
    [k \in 1..((IF to > Len(str) THEN Len(str) ELSE to) - from) |-> str[from + k]]

\* String.prototype.indexOf(char): -1 when absent
IndexOf(str, char) ==
    IF \E i \in 0..(Len(str) - 1) : At(str, i) = char
    THEN CHOOSE i \in 0..(Len(str) - 1) :
             /\ At(str, i) = char
             /\ \A j \in 0..(i - 1) : At(str, j) # char
    ELSE -1

\* The positions of `char` in `str`, as a set; findIndices returns them in
\* increasing order.
findIndices(str, char) == {i \in 0..(Len(str) - 1) : At(str, i) = char}

\* The `for` loop of decimalToNumber
RECURSIVE DecimalLoop(_, _, _, _)
DecimalLoop(input, start, end, value) ==
    IF start >= end THEN Number(value)
    ELSE IF ~IsDigit(At(input, start)) THEN Undefined
    ELSE DecimalLoop(input, start + 1, end,
                     value * 10 + DigitOf(At(input, start)))

decimalToNumber(input, start, end) ==
    IF start >= end THEN Undefined
    ELSE LET negative == At(input, start) = "-"
             from == IF negative THEN start + 1 ELSE start
         IN  IF negative /\ from = end THEN Undefined
             ELSE LET n == DecimalLoop(input, from, end, 0)
                  IN  IF n.def /\ negative THEN Number(0 - n.val) ELSE n

\* Faulty variant: the upper limit of the port range is not checked.
BadPort_NoUpperLimit(port) == ~port.def \/ port.val <= 0

\* `port === undefined || port <= 0 || port > 65535`
BadPort(port) == ~port.def \/ port.val <= 0 \/ port.val > MaxPort

\* Faulty variant: every string with 2 to 7 colons is taken as an address.
BareIPv6_IgnoresDots(str, colons) ==
    Cardinality(colons) >= 2 /\ Cardinality(colons) <= 7

\* `!spec.includes(".") && colons.length >= 2 && colons.length <= 7`
BareIPv6(str, colons) ==
    /\ IndexOf(str, ".") = -1
    /\ Cardinality(colons) >= 2
    /\ Cardinality(colons) <= 7

Thrown(why) == [tag |-> "error", why |-> why]
PortOnly(port) == [tag |-> "ok", hasHost |-> FALSE, host |-> <<>>,
                   hasPort |-> TRUE, port |-> port]
HostAndPort(host, port) == [tag |-> "ok", hasHost |-> TRUE, host |-> host,
                            hasPort |-> TRUE, port |-> port]
HostOnly(host) == [tag |-> "ok", hasHost |-> TRUE, host |-> host,
                   hasPort |-> FALSE, port |-> 0]

\* The bracketed branch: `[host]` followed by one character and the port
ParseBracketed(str) ==
    LET end == IndexOf(str, "]")
    IN  IF end < 0 THEN Thrown("bad IPv6 address")
        ELSE LET host == Substring(str, 1, end)
                 port == decimalToNumber(str, end + 2, Len(str))
             IN  IF BadPort(port) THEN Thrown("bad port number")
                 ELSE HostAndPort(host, port.val)

\* The branch for unbracketed hosts
ParseUnbracketed(str) ==
    LET colons == findIndices(str, ":")
        first == IndexOf(str, ":")
        one == ~BareIPv6(str, colons) /\ Cardinality(colons) = 1
        host == CASE BareIPv6(str, colons) -> str
                  [] Cardinality(colons) = 0 -> str
                  [] one -> Substring(str, 0, first)
                  [] OTHER -> <<>>
        port == IF one THEN decimalToNumber(str, first + 1, Len(str))
                ELSE Undefined
    IN  IF one /\ BadPort(port) THEN Thrown("bad port number")
        ELSE IF host = <<>> THEN Thrown("no host")
        ELSE IF port.def THEN HostAndPort(host, port.val)
        ELSE HostOnly(host)

parseTcpSocketSpec(str) ==
    LET port == decimalToNumber(str, 0, Len(str))
    IN  IF port.def
        THEN IF port.val <= 0 \/ port.val > MaxPort
             THEN Thrown("bad port number")
             ELSE PortOnly(port.val)
        ELSE IF str # <<>> /\ At(str, 0) = "["
        THEN ParseBracketed(str)
        ELSE ParseUnbracketed(str)

\* The strings tried: every string over Alphabet up to MaxLen, and every
\* combination of a host part, a separator and a port part below.
RECURSIVE StringsUpTo(_)
StringsUpTo(n) ==
    IF n = 0 THEN {<<>>}
    ELSE LET shorter == StringsUpTo(n - 1)
         IN  shorter \cup {Append(s, c) : s \in shorter, c \in Alphabet}

HostParts ==
    {<<>>, <<"a">>, <<"1", ".", "2">>,
     <<"[", ":", ":", "1", "]">>, <<"[", ":", ":", "1">>, <<"[", "]">>,
     <<":", ":", "1">>,
     <<"1", ":", "2", ":", "3", ":", "4", ":", "5", ":", "6", ":", "7", ":", "8">>,
     <<"1", ":", "2", ":", "3", ":", "4", ":", "5", ":", "6", ":", "7", ":", "8",
       ":">>,
     <<":", ":", "f", "f", "f", "f", ":", "1", ".", "2", ".", "3", ".", "4">>}
Separators == {<<>>, <<":">>, <<"a">>}
PortParts ==
    {<<>>, <<"0">>, <<"1">>, <<"-", "1">>, <<"-">>, <<"a">>, <<"1", "a">>,
     <<"5", "0", "3", "7">>, <<"6", "5", "5", "3", "5">>,
     <<"6", "5", "5", "3", "6">>, <<"9", "9", "9", "9", "9", "9", "9">>}

SocketSpecs ==
    StringsUpTo(MaxLen)
        \cup {h \o s \o q : h \in HostParts, s \in Separators, q \in PortParts}

InitParse ==
    /\ Constructed
    /\ spec \in SocketSpecs
    /\ v1Database = NoV1Database

Parse ==
    /\ parsed = NotParsed
    /\ parsed' = parseTcpSocketSpec(spec)
    /\ UNCHANGED <<spec, rfvars, tasks, ready, disposed, started, frames,
                   lastFrame, pendingRedraw, aborted, ntokens, cbLog, calls,
                   dbvars>>

NextParse == Parse

SpecParse == InitParse /\ [][NextParse]_vars

---------------------------------------------------------------------------
\* TangoIndexedDbStorage (indexed-db/v2.ts) with createTransaction
\* (shared.ts) and getAllKeysV1 (v1.ts).  `database` is the one connection
\* the storage instance memoizes; `store` is the object store of the
\* version-2 database; `ops` lists the save/load/clear calls in call order.

\* Number of save/load/clear calls on the instance.
MaxOps == 3

Keys == {1, 2}
Names == {"undefined", "name"}
V1Databases ==
    {NoV1Database, [exists |-> TRUE, keys |-> <<>>],
     [exists |-> TRUE, keys |-> <<1>>]}

TangoKey(privateKey, name) == [privateKey |-> privateKey, name |-> name]

\* waitRequest(request) returns `new Promise<T>(...)`
waitRequest(request) == [promise |-> TRUE, request |-> request]

\* The value returned by the callback each caller passes to
\* createTransaction: save and clear return nothing, load and getAllKeysV1
\* return waitRequest(store.getAll()).
Callback(op) ==
    IF op \in {"load", "getAllKeysV1"}
    THEN waitRequest("getAll")
    ELSE [promise |-> FALSE, request |-> "none"]

\* `result instanceof Promise`
InstanceOfPromise(result) == result.promise

\* createTransaction(database, storeName, callback) up to its return:
\* database.transaction() throws inside the executor when the connection is
\* not open; a callback that returns a promise makes the executor throw,
\* reject and abort the transaction; otherwise the promise stays pending
\* until the transaction completes.
createTransaction(conn, op) ==
    IF conn # "open"
    THEN [tx |-> "none", promise |-> "rejected", error |-> "InvalidStateError"]
    ELSE IF InstanceOfPromise(Callback(op))
         THEN [tx |-> "aborted", promise |-> "rejected",
               error |-> "callback must not be an async function"]
         ELSE [tx |-> "active", promise |-> "pending", error |-> "none"]

\* getAllKeysV1: `databases.every(...)` is false when a version-1 database
\* with the default name exists.
HasV1(d) == d.exists

\* The records the upgrade callback of #openDatabaseCore adds to the new store.
Migrated(v1Keys) ==
    IF v1Keys.defined
    THEN [k \in 1..Len(v1Keys.keys) |-> TangoKey(v1Keys.keys[k], "undefined")]
    ELSE <<>>

\* Everything that is not part of the storage.
dbothers == <<tasks, ready, disposed, started, frames, lastFrame,
              pendingRedraw, aborted, ntokens, cbLog, calls, rfvars, pvars>>

\* save(privateKey, name), load() (its first next()) or clear() up to
\* `await this.#openDatabase()`; the first call starts #openDatabaseCore,
\* which runs up to `await indexedDB.databases()`.
OpCall(op, privateKey, name) ==
    /\ Len(ops) < MaxOps
    /\ ops' = Append(ops,
           [op |-> op, privateKey |-> privateKey, name |-> name,
            pc |-> "awaitOpen", conn |-> "none", tx |-> "none", txn |-> 0,
            error |-> "none", result |-> <<>>, stored |-> <<>>,
            yielded |-> <<>>, out |-> "pending"])
    /\ IF openDatabasePromise = "undefined"
       THEN /\ openDatabasePromise' = "pending"
            /\ core' = [core EXCEPT !.pc = "databases"]
       ELSE UNCHANGED <<openDatabasePromise, core>>
    /\ UNCHANGED <<v1Database, store, database,
                   dbothers>>

\* getAllKeysV1 resumes after `await indexedDB.databases()`: without a
\* version-1 database it returns undefined and #openDatabaseCore goes on to
\* open the version-2 database; otherwise it opens the version-1 database.
CoreDatabases ==
    /\ core.pc = "databases"
    /\ core' = [core EXCEPT !.pc = IF HasV1(v1Database) THEN "openV1"
                                   ELSE "openV2",
                            !.v1Keys = NoKeys]
    /\ UNCHANGED <<v1Database, store, database, openDatabasePromise, ops,
                   dbothers>>

\* getAllKeysV1 with the version-1 database open: createTransaction, then
\* `finally { db.close() }`.  A rejected createTransaction makes
\* getAllKeysV1, #openDatabaseCore and the memoized promise reject; a
\* resolved one yields the keys, the version-1 database is deleted and the
\* version-2 database is opened next.
CoreV1Opened ==
    /\ core.pc = "openV1"
    /\ LET T == createTransaction("open", "getAllKeysV1")
       IN  IF T.promise = "rejected"
           THEN /\ core' = [core EXCEPT !.pc = "done", !.error = T.error]
                /\ openDatabasePromise' = "rejected"
                /\ UNCHANGED v1Database
           ELSE /\ core' = [core EXCEPT !.pc = "openV2",
                               !.v1Keys = [defined |-> TRUE,
                                           keys |-> v1Database.keys]]
                /\ v1Database' = NoV1Database
                /\ UNCHANGED openDatabasePromise
    /\ UNCHANGED <<store, database, ops,
                   dbothers>>

\* openDatabase(this.#databaseName, Version, onUpgrade) succeeds: the
\* upgrade callback runs when the database is new; the memoized promise is
\* fulfilled with the connection.
CoreOpened ==
    /\ core.pc = "openV2"
    /\ store' = IF store.exists THEN store
                ELSE [exists |-> TRUE, keys |-> Migrated(core.v1Keys)]
    /\ database' = "open"
    /\ openDatabasePromise' = "fulfilled"
    /\ core' = [core EXCEPT !.pc = "done"]
    /\ UNCHANGED <<v1Database, ops,
                   dbothers>>

\* An operation resumes after `await this.#openDatabase()` (the waiting
\* operations resume in call order): it fails when the promise is
\* rejected, otherwise it calls createTransaction on the connection.
OpResumeOpen(i) ==
    /\ ops[i].pc = "awaitOpen"
    /\ \A j \in 1..(i - 1) : ops[j].pc # "awaitOpen"
    /\ openDatabasePromise \in {"fulfilled", "rejected"}
    /\ LET T == createTransaction(database, ops[i].op)
           n == Cardinality({j \in DOMAIN ops : ops[j].txn > 0})
       IN  ops' = IF openDatabasePromise = "rejected"
                  THEN [ops EXCEPT ![i].pc = "done", ![i].out = "failed",
                                   ![i].error = core.error]
                  ELSE [ops EXCEPT ![i].pc = "awaitTx",
                                   ![i].conn = database,
                                   ![i].tx = T.tx,
                                   ![i].txn = n + 1,
                                   ![i].error = T.error]
    /\ UNCHANGED <<v1Database, store, database, openDatabasePromise, core,
                   dbothers>>

\* The requests of a transaction: add for save, clear for clear, getAll for
\* load.
Effect(op, keys) ==
    CASE op.op = "save" -> Append(keys, TangoKey(op.privateKey, op.name))
      [] op.op = "clear" -> <<>>
      [] OTHER -> keys

\* A transaction completes (transactions on the one store run in the order
\* they were created): `transaction.oncomplete` resolves with the result.
TxComplete(i) ==
    /\ ops[i].pc = "awaitTx"
    /\ ops[i].tx = "active"
    /\ \A j \in DOMAIN ops : ops[j].tx = "active" => ops[i].txn <= ops[j].txn
    /\ store' = [store EXCEPT !.keys = Effect(ops[i], @)]
    /\ ops' = [ops EXCEPT ![i].tx = "complete",
                          ![i].stored = store.keys,
                          ![i].result = IF ops[i].op = "load" THEN store.keys
                                        ELSE <<>>]
    /\ UNCHANGED <<v1Database, database, openDatabasePromise, core,
                   dbothers>>

\* The operation resumes after `await createTransaction(...)`: load yields
\* the keys, and `finally { db.close() }` closes the memoized connection.
OpFinally(i) ==
    /\ ops[i].pc = "awaitTx"
    /\ ops[i].tx # "active"
    /\ database' = "closed"
    /\ ops' = [ops EXCEPT ![i].pc = "done",
                          ![i].out = IF ops[i].tx = "complete" THEN "ok"
                                     ELSE "failed",
                          ![i].yielded = ops[i].result]
    /\ UNCHANGED <<v1Database, store, openDatabasePromise, core,
                   dbothers>>

InitDb ==
    /\ Constructed
    /\ spec = <<>>
    /\ v1Database \in V1Databases

NextDb ==
    \/ \E k \in Keys, n \in Names : OpCall("save", k, n)
    \/ OpCall("load", 0, "undefined")
    \/ OpCall("clear", 0, "undefined")
    \/ CoreDatabases
    \/ CoreV1Opened
    \/ CoreOpened
    \/ \E i \in DOMAIN ops : OpResumeOpen(i)
    \/ \E i \in DOMAIN ops : TxComplete(i)
    \/ \E i \in DOMAIN ops : OpFinally(i)

SpecDb == InitDb /\ [][NextDb]_vars

---------------------------------------------------------------------------
\* Properties of TaskQueue (specification Spec)

OwnResult(i) == tasks[i].res \in {Fulfilled, Rejected(i)}

\* C1: task bodies start in submission order and never while an
\* earlier-submitted task that was invoked has not yet settled; at most one
\* task is active at any time.
C1_SerialInOrder ==
    /\ \A k \in DOMAIN started : started[k].active = {}
    /\ \A k, l \in DOMAIN started :
          k < l => started[k].id < started[l].id
    /\ Cardinality(Running(Cur)) <= 1

C1_Witness ==
    /\ Len(tasks) >= 4
    /\ Len(started) = 3
    /\ \A k \in 1 .. 3 : started[k].id = k
    /\ tasks[1].kind = "async" /\ tasks[1].st = "done"
    /\ tasks[2].kind = "sync" /\ tasks[2].via = "chain" /\ tasks[2].st = "done"
    /\ tasks[3].kind = "async" /\ tasks[3].st = "running"
    /\ tasks[4].st = "queued"

\* C2 as stated: after a bail=true task a has failed, every later task is
\* skipped with a's failure until a bail=false task has succeeded (queue not
\* disposed).
C2_Original ==
    ~disposed =>
        \A a, b \in DOMAIN tasks :
            ( /\ a < b
              /\ tasks[a].bail
              /\ tasks[a].res = Rejected(a)
              /\ ~ \E c \in DOMAIN tasks :
                     a < c /\ c < b /\ ~tasks[c].bail /\ tasks[c].res = Fulfilled )
            => /\ ~tasks[b].invoked
               /\ tasks[b].st = "done" => tasks[b].res = Rejected(a)

\* C2 amended: after a bail=true task a has failed, every task submitted to
\* the (not disposed) queue after a, up to and including the first bail=false
\* task, is never invoked and fails with a's failure.
C2_PoisonSkips ==
    \A a, b \in DOMAIN tasks :
        ( /\ a < b
          /\ tasks[a].bail
          /\ tasks[a].res = Rejected(a)
          /\ tasks[b].via # "thrown"
          /\ ~ \E c \in DOMAIN tasks : a < c /\ c < b /\ ~tasks[c].bail )
        => /\ ~tasks[b].invoked
           /\ tasks[b].st = "done" => tasks[b].res = Rejected(a)

C2_Witness ==
    /\ Len(tasks) >= 3
    /\ tasks[1].kind = "sync" /\ tasks[1].via = "idle" /\ tasks[1].bail
    /\ tasks[1].res = Rejected(1)
    /\ tasks[2].bail /\ tasks[2].st = "done" /\ tasks[2].res = Rejected(1)
    /\ ~tasks[3].bail /\ tasks[3].st = "done" /\ tasks[3].res = Rejected(1)
    /\ ~tasks[2].invoked /\ ~tasks[3].invoked

\* C3 as stated: a task not yet started at dispose(), or submitted after it,
\* is never invoked and fails with the disposed-queue error.
C3_Original ==
    \A i \in DOMAIN tasks :
        (tasks[i].via = "thrown" \/ tasks[i].atDispose = "queued")
        => /\ ~tasks[i].invoked
           /\ tasks[i].st = "done" => tasks[i].res = DisposedError

\* C3 amended: a task not yet started at dispose(), or submitted after it, is
\* never invoked and its result fails: with the disposed-queue error, or,
\* for a task already queued whose chain is rejected, with the failure of the
\* earlier task that rejected the chain.
C3_DisposedNeverRuns ==
    /\ \A k \in DOMAIN started : ~started[k].disp
    /\ \A i \in DOMAIN tasks :
        (tasks[i].via = "thrown" \/ tasks[i].atDispose = "queued")
        => /\ ~tasks[i].invoked
           /\ tasks[i].via = "thrown" => tasks[i].res = DisposedError
           /\ tasks[i].st = "done" =>
                \/ tasks[i].res = DisposedError
                \/ /\ tasks[i].res.tag = "err"
                   /\ tasks[i].res.by < i
                   /\ tasks[tasks[i].res.by].invoked
                   /\ tasks[tasks[i].res.by].res = tasks[i].res

C3_Witness ==
    /\ disposed
    /\ \E i, j, k \in DOMAIN tasks :
          /\ tasks[i].atDispose = "running" /\ tasks[i].res = Fulfilled
          /\ tasks[j].atDispose = "queued" /\ tasks[j].res = DisposedError
          /\ tasks[k].via = "thrown"

\* C4: the failure of a bail=false task a is not retained by a queue that is
\* not disposed: no other task fails with it, the promise a left in #ready is
\* not rejected, and the task submitted next is invoked and gets its own
\* result.
C4_NonBailNotRetained ==
    ~disposed =>
        \A a \in DOMAIN tasks :
            (~tasks[a].bail /\ tasks[a].res = Rejected(a))
            => /\ \A b \in DOMAIN tasks \ {a} : tasks[b].res # Rejected(a)
               /\ ~IsRejected(tasks[a].rdy)
               /\ (a + 1 \in DOMAIN tasks /\ tasks[a + 1].st = "done")
                  => tasks[a + 1].invoked /\ OwnResult(a + 1)

C4_Witness ==
    /\ ~disposed
    /\ \E a \in DOMAIN tasks :
          /\ a + 1 \in DOMAIN tasks
          /\ tasks[a].kind = "async"
          /\ ~tasks[a].bail /\ tasks[a].res = Rejected(a)
          /\ tasks[a + 1].via = "chain"
          /\ tasks[a + 1].invoked /\ tasks[a + 1].res = Fulfilled
    /\ \E a \in DOMAIN tasks :
          /\ a + 1 \in DOMAIN tasks
          /\ tasks[a].kind = "sync" /\ tasks[a].via = "idle"
          /\ ~tasks[a].bail /\ tasks[a].res = Rejected(a)
          /\ tasks[a + 1].via = "idle"
          /\ tasks[a + 1].invoked /\ tasks[a + 1].res = Fulfilled

---------------------------------------------------------------------------
\* Properties of RedrawController (specification SpecRC)

\* Nothing is left to run: every task has settled and every reaction has run.
Quiescent ==
    \A i \in DOMAIN tasks : tasks[i].st = "done" /\ tasks[i].rdy # Pending

\* Number of invocations of the draw callback with frame f.
DrawnTimes(f) == Cardinality({k \in DOMAIN cbLog : cbLog[k].frame = f})

\* The draw callback was invoked for f before it was for g.
DrawnBefore(f, g) ==
    \A k, l \in DOMAIN cbLog :
        (cbLog[k].frame = f /\ cbLog[l].frame = g) => k < l

\* draw(f1) started its task and draw(f2) was called next, before f1's task
\* had settled.
TwoDraws(i, j) ==
    /\ i \in DOMAIN tasks /\ j \in DOMAIN tasks
    /\ j = i + 1
    /\ tasks[i].kind = "draw" /\ tasks[j].kind = "draw"
    /\ tasks[i].invoked
    /\ \E k \in DOMAIN calls :
          calls[k].op = "draw" /\ calls[k].task = j /\ calls[k].busy

\* C6 as stated (on a controller that is not disposed): once everything has settled, the
\* callback was invoked once for f1 and once for f2, in that order, and each
\* frame was released exactly once.
C6_Original ==
    (Quiescent /\ ~disposed) =>
        \A i, j \in DOMAIN tasks :
            TwoDraws(i, j) =>
                /\ DrawnTimes(tasks[i].frame) = 1
                /\ DrawnTimes(tasks[j].frame) = 1
                /\ DrawnBefore(tasks[i].frame, tasks[j].frame)
                /\ frames[tasks[i].frame].closed = 1
                /\ frames[tasks[j].frame].closed = 1

\* C6 amended: the callback is invoked exactly once for f1 and f1 is
\* released exactly once; when f1's draw succeeds and dispose() is not called
\* before f2's task starts, the callback is then invoked exactly once for f2
\* and f2 is released exactly once; otherwise the callback is never invoked
\* for f2.  In every case the callback is invoked and each frame is
\* released at most once, f1 before f2.
C6_TwoDrawsInOrder ==
    \A i, j \in DOMAIN tasks :
        TwoDraws(i, j) =>
            LET f1 == tasks[i].frame
                f2 == tasks[j].frame
                f2Runs == /\ tasks[i].res = Fulfilled
                          /\ tasks[j].via # "thrown"
                          /\ tasks[j].atDispose # "queued"
            IN  /\ DrawnTimes(f1) = 1
                /\ DrawnTimes(f2) <= 1
                /\ DrawnBefore(f1, f2)
                /\ frames[f1].closed <= 1 /\ frames[f2].closed <= 1
                /\ Quiescent =>
                      /\ frames[f1].closed = 1
                      /\ f2Runs => DrawnTimes(f2) = 1 /\ frames[f2].closed = 1
                      /\ ~f2Runs => DrawnTimes(f2) = 0

C6_Witness ==
    /\ Quiescent
    /\ \E i, j \in DOMAIN tasks :
          /\ TwoDraws(i, j)
          /\ tasks[i].cb = "ok" /\ tasks[j].cb = "ok"
          /\ DrawnTimes(tasks[j].frame) = 1
          /\ frames[tasks[i].frame].closed = 1
          /\ frames[tasks[j].frame].closed = 1

\* C7: every frame passed to draw() and every clone made for a redraw is
\* never released twice, and has been released exactly once when everything
\* has settled.
C7_ReleasedExactlyOnce ==
    \A f \in DOMAIN frames :
        frames[f].role \in {"arg", "redraw"} =>
            /\ frames[f].closed <= 1
            /\ Quiescent => frames[f].closed = 1

\* The tokens that are pending: created, not aborted, and not yet consumed by
\* their redraw task passing its cancellation check.
PendingTokens ==
    {k \in 1 .. ntokens :
        /\ k \notin aborted
        /\ ~ \E i \in DOMAIN tasks :
               tasks[i].kind = "redraw" /\ tasks[i].token = k /\ tasks[i].invoked}

\* C8: at most one pending-redraw token exists, and it is #pendingRedraw; a
\* redraw() called while a redraw is pending or without a lastFrame creates
\* no token and enqueues no task.
C8_OnePendingRedraw ==
    /\ Cardinality(PendingTokens) <= 1
    /\ PendingTokens \subseteq {pendingRedraw}
    /\ \A k \in DOMAIN calls :
          (calls[k].op = "redraw" /\ (calls[k].pend # 0 \/ calls[k].last = 0))
          => /\ calls[k].task = calls[k].tasksBefore
             /\ calls[k].tokensAfter = calls[k].tokensBefore
    /\ Cardinality({i \in DOMAIN tasks : tasks[i].kind = "redraw"}) <= ntokens
    /\ \A i \in DOMAIN tasks :
          tasks[i].kind = "redraw" =>
              Cardinality({k \in DOMAIN cbLog : cbLog[k].task = i}) <= 1

C8_Witness ==
    /\ pendingRedraw # 0
    /\ PendingTokens = {pendingRedraw}
    /\ \E k \in DOMAIN calls :
          /\ calls[k].op = "redraw" /\ calls[k].pend = pendingRedraw
          /\ calls[k].last # 0
    /\ \E i \in DOMAIN tasks :
          tasks[i].kind = "redraw" /\ tasks[i].token = pendingRedraw
          /\ tasks[i].st = "queued"

\* The task of the redraw whose token is k (0 when enqueue threw).
TaskOfToken(k) ==
    IF \E i \in DOMAIN tasks : tasks[i].kind = "redraw" /\ tasks[i].token = k
    THEN CHOOSE i \in DOMAIN tasks : tasks[i].kind = "redraw" /\ tasks[i].token = k
    ELSE 0

\* C9: a draw() called while a redraw is pending aborts its token; the
\* redraw's task stays queued, directly ahead of the draw's task; when it
\* executes it only performs the cancellation check and succeeds, it never
\* invokes the callback, and the draw behind it is then performed (unless
\* dispose() is called before the draw's task starts).
C9_DrawCancelsRedraw ==
    \A k \in DOMAIN calls :
        (calls[k].op = "draw" /\ calls[k].pend # 0) =>
            LET i == TaskOfToken(calls[k].pend)
                j == calls[k].task
            IN  /\ calls[k].pend \in aborted
                /\ i # 0 =>
                      /\ ~ \E l \in DOMAIN cbLog : cbLog[l].task = i
                      /\ tasks[i].frame = 0
                      /\ tasks[i].cb = "none"
                      /\ tasks[i].invoked =>
                            tasks[i].st = "done" /\ tasks[i].res = Fulfilled
                      /\ tasks[j].via = "chain" =>
                            /\ j = i + 1
                            /\ tasks[j].kind = "draw"
                            /\ ( /\ Quiescent
                                 /\ tasks[i].invoked
                                 /\ tasks[j].atDispose # "queued" )
                               => /\ tasks[j].invoked
                                  /\ DrawnTimes(tasks[j].frame) = 1

C9_Witness ==
    /\ Quiescent
    /\ \E k \in DOMAIN calls :
          /\ calls[k].op = "draw" /\ calls[k].pend # 0
          /\ TaskOfToken(calls[k].pend) # 0
          /\ tasks[TaskOfToken(calls[k].pend)].invoked
          /\ tasks[calls[k].task].invoked
          /\ tasks[calls[k].task].via = "chain"
          /\ DrawnTimes(calls[k].frame) = 1

\* C10: the draw callback is never invoked while an earlier invocation of it
\* has not settled.
C10_CallbackNeverOverlaps ==
    /\ \A k \in DOMAIN cbLog : cbLog[k].active = {}
    /\ Cardinality({i \in DOMAIN tasks : tasks[i].cb = "active"}) <= 1

C10_Witness ==
    /\ Len(cbLog) >= 3
    /\ \E k, l \in DOMAIN cbLog :
          /\ k < l
          /\ tasks[cbLog[k].task].kind = "draw"
          /\ tasks[cbLog[l].task].kind = "redraw"
          /\ tasks[cbLog[l].task].via = "chain"
          /\ tasks[cbLog[l].task].cb = "active"

\* The draw callback invocation of task i has failed.
CallbackFailed(i) == tasks[i].cb \in {"threw", "fail"}

\* C11: once an invocation of the draw callback has failed, the callback is
\* never invoked again: a failed invocation is the last one, and no task
\* enqueued after the failing one is ever invoked.
C11_PoisonedForever ==
    /\ \A k \in DOMAIN cbLog :
          CallbackFailed(cbLog[k].task) => k = Len(cbLog)
    /\ \A i, j \in DOMAIN tasks :
          (i < j /\ CallbackFailed(i)) =>
              /\ ~tasks[j].invoked
              /\ tasks[j].st = "done" => IsRejected(tasks[j].res)

C11_Witness ==
    /\ Quiescent /\ ~disposed
    /\ \E i \in DOMAIN tasks :
          /\ CallbackFailed(i)
          /\ \E k, l \in DOMAIN calls :
                /\ calls[k].op = "draw" /\ calls[k].task > i /\ ~calls[k].busy
                /\ calls[l].op = "redraw" /\ calls[l].task > i
                /\ calls[l].task > calls[l].tasksBefore
                /\ tasks[calls[k].task].res = Rejected(i)
                /\ tasks[calls[l].task].res = Rejected(i)

\* C12: dispose() aborts the pending token, releases lastFrame exactly once
\* and leaves it undefined (so an immediately repeated dispose() has nothing
\* to release), and disposes the queue: no task that had not started before
\* dispose() ever invokes the draw callback.
C12_DisposeReleasesAndStops ==
    /\ \A k \in DOMAIN calls :
          calls[k].op = "dispose" =>
              /\ calls[k].pend # 0 => calls[k].pend \in aborted
              /\ calls[k].last # 0 => frames[calls[k].last].closed = 1
              /\ disposed
              /\ (k + 1 \in DOMAIN calls /\ calls[k + 1].op = "dispose")
                 => calls[k + 1].last = 0
              /\ k = Len(calls) => lastFrame = 0
    /\ \A f \in DOMAIN frames :
          frames[f].role = "last" => frames[f].closed <= 1
    /\ \A k \in DOMAIN started : ~started[k].disp
    /\ \A k \in DOMAIN cbLog :
          /\ tasks[cbLog[k].task].atDispose # "queued"
          /\ tasks[cbLog[k].task].via # "thrown"

C12_Witness ==
    /\ Quiescent
    /\ \E k \in DOMAIN calls :
          /\ k + 1 \in DOMAIN calls
          /\ calls[k].op = "dispose" /\ calls[k + 1].op = "dispose"
          /\ calls[k].pend # 0 /\ calls[k].last # 0
          /\ frames[calls[k].last].closed = 1
          /\ \E i \in DOMAIN tasks :
                /\ tasks[i].kind = "redraw" /\ tasks[i].atDispose = "queued"
                /\ tasks[i].res = DisposedError

---------------------------------------------------------------------------
\* Properties of RendererController (specification SpecRF)

InputFrames == {f \in DOMAIN vframes : vframes[f].role = "input"}
Handed(f) == \E k \in DOMAIN handed : handed[k].frame = f
Delivered(f) == \E k \in DOMAIN delivered : delivered[k] = f

\* Three consecutive writes of which none had been taken out of the slot by
\* the draw loop when the next one arrived.
RapidTriple(k) ==
    /\ k + 2 \in DOMAIN writes
    /\ writes[k + 1].replaced = writes[k].frame
    /\ writes[k + 2].replaced = writes[k + 1].frame

\* C13: when f1, f2, f3 are written before the draw loop takes any of them,
\* f1 and f2 are each released once as skipped, the skip counter goes up by
\* one for each, neither is ever offered downstream, and f3 is the one that
\* stays in the slot until the loop offers it (or a later write or dispose()
\* drops it).
C13_RapidWritesKeepNewest ==
    \A k \in DOMAIN writes : RapidTriple(k) =>
        LET f1 == writes[k].frame
            f2 == writes[k + 1].frame
            f3 == writes[k + 2].frame
        IN  /\ \A f \in {f1, f2} :
                  /\ vframes[f].closed = 1
                  /\ vframes[f].how = "skipped"
                  /\ ~Handed(f)
            /\ writes[k + 1].skipped = writes[k].skipped + 1
            /\ writes[k + 2].skipped = writes[k + 1].skipped + 1
            /\ skipped >= writes[k].skipped + 2
            /\ \/ nextFrame = f3
               \/ Handed(f3)
               \/ vframes[f3].how \in {"skipped", "disposed"}

C13_Witness ==
    \E k \in DOMAIN writes :
        /\ RapidTriple(k)
        /\ Delivered(writes[k + 2].frame)
        /\ vframes[writes[k + 2].frame].closed = 0
        /\ skipped = 2
        /\ drawTask = "none"

LastWrite == writes[Len(writes)]

\* C14: after every accepted write and until dispose(), #captureFrame is an
\* open clone (a frame of its own, with the same content) of the most
\* recently written frame, whatever happened to that frame since; every
\* earlier capture clone has been released exactly once.
C14_CaptureIsCloneOfLatest ==
    /\ (writes # <<>> /\ disposals = 0) =>
           /\ captureFrame = LastWrite.capture
           /\ captureFrame # LastWrite.frame
           /\ vframes[captureFrame].role = "capture"
           /\ vframes[captureFrame].content = vframes[LastWrite.frame].content
           /\ vframes[captureFrame].closed = 0
    /\ \A f \in DOMAIN vframes : vframes[f].role = "capture" =>
           IF f = captureFrame
           THEN vframes[f].closed = 0
           ELSE vframes[f].closed = 1
    /\ disposals > 0 => captureFrame = 0

C14_Witness ==
    /\ Len(writes) = 3
    /\ disposals = 0
    /\ vframes[LastWrite.frame].how = "cancelled"
    /\ vframes[writes[2].frame].how = "skipped"
    /\ Delivered(writes[1].frame)
    /\ vframes[captureFrame].closed = 0
    /\ vframes[writes[1].capture].how = "replaced"
    /\ vframes[writes[2].capture].closed = 1

OutputEnded(k) == k \in DOMAIN outEnd /\ outEnd[k].effect \in {"closed", "errored"}

\* C15: a close or abort handler closes or errors the output only when the
\* draw loop has ended: the slot is empty and no frame is in flight at that
\* moment, the frames that were in flight or in the slot when the handler
\* started have been taken by the consumer before, and no written frame is
\* left that was neither taken by the consumer nor skipped.
C15_TerminationAfterDrain ==
    \A k \in DOMAIN outEnd : OutputEnded(k) =>
        /\ outEnd[k].slot = 0
        /\ outEnd[k].loop = "none"
        /\ outEnd[k].drawing = 0
        /\ k > 1
        /\ outEnd[k - 1].effect = "start"
        /\ outEnd[k - 1].by = outEnd[k].by
        /\ \A f \in {outEnd[k - 1].slot, outEnd[k - 1].drawing} \ {0} :
               Delivered(f) /\ vframes[f].closed = 0
        /\ \A f \in InputFrames :
               Delivered(f) \/ vframes[f].how = "skipped"

C15_Witness ==
    /\ Len(outEnd) = 2
    /\ outEnd[1].by = "closing"
    /\ outEnd[1].slot # 0
    /\ outEnd[1].drawing # 0
    /\ outEnd[2].effect = "closed"
    /\ readable = "closed"
    /\ Delivered(outEnd[1].slot)

C15_WitnessAbort ==
    /\ Len(outEnd) = 2
    /\ outEnd[1].by = "aborting"
    /\ outEnd[1].slot # 0
    /\ outEnd[2].effect = "errored"
    /\ readable = "errored"

Held == {f \in InputFrames : vframes[f].closed = 0 /\ ~Delivered(f)}

\* C17: a write is one step whether or not the draw loop is suspended (the
\* written frame is in the slot or already handed to the consumer when the
\* write returns), and the transform never owns more than the frame in the
\* slot and the frame in flight: a frame found in the slot is released, not
\* queued.
C17_WriteNeverWaits ==
    /\ Held \subseteq ({nextFrame, drawing} \ {0})
    /\ nextFrame # 0 => nextFrame # drawing /\ drawTask = "running"
    /\ Cardinality(Held) <= 2
    /\ \A k \in DOMAIN writes :
           /\ writes[k].suspended => writes[k].busy
           /\ writes[k].busy =>
                  \/ nextFrame = writes[k].frame
                  \/ Handed(writes[k].frame)
                  \/ vframes[writes[k].frame].how \in {"skipped", "disposed"}
           /\ ~writes[k].busy => Handed(writes[k].frame)

C17_Witness ==
    /\ Len(writes) = 3
    /\ writes[2].suspended
    /\ writes[3].suspended
    /\ writes[3].replaced = writes[2].frame
    /\ enq = "waiting"
    /\ Held = {writes[1].frame, writes[3].frame}
    /\ drawing = writes[1].frame
    /\ nextFrame = writes[3].frame

WrittenAt(f) == {k \in DOMAIN writes : writes[k].frame = f}

\* C18: the frames the consumer takes are written frames, each taken at most
\* once and in the order they were written (later deliveries are later
\* writes); the same holds for the frames the loop offers.
C18_DeliveredInWriteOrder ==
    /\ \A i \in DOMAIN delivered : WrittenAt(delivered[i]) # {}
    /\ \A i, j \in DOMAIN delivered :
           i < j => \A a \in WrittenAt(delivered[i]), b \in WrittenAt(delivered[j]) :
                        a < b
    /\ \A i, j \in DOMAIN handed : i < j => handed[i].frame < handed[j].frame
    /\ \A i \in DOMAIN delivered : Handed(delivered[i])

C18_Witness ==
    /\ Len(writes) = 4
    /\ Len(delivered) = 3
    /\ delivered[1] = writes[1].frame
    /\ delivered[2] = writes[3].frame
    /\ delivered[3] = writes[4].frame
    /\ vframes[writes[2].frame].how = "skipped"

\* C19: under every interleaving of writes, loop steps, consumer accept and
\* cancel, close, abort and dispose(), no frame is closed twice, no frame is
\* offered to the consumer after it was closed, and a frame the consumer
\* took (or may still take) is never closed by the transform.
C19_NoDoubleReleaseNoUseAfterRelease ==
    /\ \A f \in DOMAIN vframes : vframes[f].closed <= 1
    /\ \A k \in DOMAIN handed : handed[k].closed = 0
    /\ \A k \in DOMAIN delivered : vframes[delivered[k]].closed = 0
    /\ enq \in {"waiting", "true"} => vframes[drawing].closed = 0

C19_Witness ==
    /\ disposals > 0
    /\ readable = "cancelled"
    /\ drawTask = "none"
    /\ \E f \in InputFrames : Delivered(f)
    /\ \E f \in InputFrames : vframes[f].how = "skipped"
    /\ \E f \in InputFrames : vframes[f].how = "cancelled"
    /\ \E f \in InputFrames : vframes[f].how = "disposed"

RefusedFrames == {f \in InputFrames : vframes[f].how = "cancelled"}

\* C20: a frame the draw loop offered and the cancelled consumer did not take
\* is closed once by the loop and never counted as rendered (the counter
\* counts exactly the frames the consumer took); after a cancel the loop is
\* never left waiting, and when it has ended the slot is empty and every
\* written frame has been taken by the consumer or released.
C20_CancelReleasesRefusedFrames ==
    /\ \A f \in RefusedFrames :
           /\ vframes[f].closed = 1
           /\ Handed(f)
           /\ ~Delivered(f)
    /\ rendered + (IF enq = "true" THEN 1 ELSE 0) = Len(delivered)
    /\ readable = "cancelled" =>
           /\ drawTask = "running" => enq \in {"true", "false"}
           /\ drawTask = "none" => nextFrame = 0 /\ Held = {}

C20_Witness ==
    /\ readable = "cancelled"
    /\ drawTask = "none"
    /\ disposals = 0
    /\ Cardinality(RefusedFrames) = 2
    /\ rendered = 1
    /\ Len(delivered) = 1
    /\ Len(handed) = 3

\* C21 as stated: whenever the consumer has cancelled the output side, the
\* input side is errored with the consumer's reason.
C21_Original ==
    readable = "cancelled" => writable = "errored" /\ storedError = "cancel"

\* C21: once the consumer has cancelled the output side, no further frame is
\* written; an input side that was still writable is errored with the
\* consumer's reason and stays so, while one whose close handler was already
\* running ends closed and one that was aborting keeps the abort reason.
C21_CancelStopsInput ==
    cancelSeen.seen =>
        /\ readable = "cancelled"
        /\ writable # "writable"
        /\ Len(writes) = cancelSeen.writes
        /\ cancelSeen.input = "writable" =>
               writable = "errored" /\ storedError = "cancel"
        /\ cancelSeen.input = "closing" => writable \in {"closing", "closed"}
        /\ cancelSeen.input = "aborting" =>
               writable \in {"aborting", "errored"} /\ storedError = "abort"

C21_Witness ==
    /\ cancelSeen.seen
    /\ cancelSeen.input = "writable"
    /\ cancelSeen.writes = 2
    /\ Len(writes) = 2
    /\ disposals = 1
    /\ writable = "errored"
    /\ storedError = "cancel"
    /\ drawTask = "none"

CaptureFrames == {f \in DOMAIN vframes : vframes[f].role = "capture"}
GracefullyClosed ==
    outEnd # <<>> /\ outEnd[Len(outEnd)].effect = "closed" /\ writable = "closed"

\* C22: after a graceful close and before dispose(), #captureFrame is still
\* the open clone of the last written frame; a capture clone is only ever
\* closed by the write that replaces it or by dispose(), and once dispose()
\* has run (also after a graceful close, also twice) the last clone has been
\* closed exactly once.
C22_CaptureSurvivesClose ==
    /\ (GracefullyClosed /\ disposals = 0 /\ writes # <<>>) =>
           /\ captureFrame = LastWrite.capture
           /\ vframes[captureFrame].closed = 0
           /\ vframes[captureFrame].content = vframes[LastWrite.frame].content
    /\ \A f \in CaptureFrames :
           /\ vframes[f].closed <= 1
           /\ vframes[f].closed = 1 => vframes[f].how \in {"replaced", "disposed"}
           /\ vframes[f].how = "replaced" => f # LastWrite.capture
    /\ (disposals > 0 /\ writes # <<>>) =>
           /\ vframes[LastWrite.capture].closed = 1
           /\ vframes[LastWrite.capture].how = "disposed"

C22_Witness ==
    /\ GracefullyClosed
    /\ disposals = 2
    /\ Len(writes) = 2
    /\ vframes[LastWrite.capture].closed = 1
    /\ vframes[LastWrite.capture].how = "disposed"
    /\ vframes[writes[1].capture].how = "replaced"
    /\ outEnd[1].drawing # 0

TeardownHappened ==
    \/ disposals > 0
    \/ \E k \in DOMAIN outEnd : outEnd[k].effect \in {"closed", "errored", "ignored"}

\* C23: over any sequence of graceful close, abort and dispose() the
\* counter's dispose() is called exactly once, by the first of them that
\* completes, and never again (stated here for sequences with at most one
\* dispose() call).
C23_CounterDisposedOnce ==
    disposals <= 1 => counterDisposed = IF TeardownHappened THEN 1 ELSE 0

---------------------------------------------------------------------------
\* Properties of parseTcpSocketSpec (specification SpecParse)

Bracketed(s) == s # <<>> /\ s[1] = "["
ColonsIn(s) == Cardinality({i \in DOMAIN s : s[i] = ":"})
HasDot(s) == \E i \in DOMAIN s : s[i] = "."
AllDigits(s) == s # <<>> /\ \A i \in DOMAIN s : IsDigit(s[i])
IsNegative(s) == Len(s) >= 2 /\ s[1] = "-" /\ AllDigits(Tail(s))

RECURSIVE ValueOf(_)
ValueOf(s) ==
    IF s = <<>> THEN 0
    ELSE ValueOf(SubSeq(s, 1, Len(s) - 1)) * 10 + DigitOf(s[Len(s)])

\* A port part that names a port: a decimal number in 1..65535.  Every
\* other port part (empty, negative, too large, not decimal, zero) is bad.
ValidPort(q) == AllDigits(q) /\ ValueOf(q) >= 1 /\ ValueOf(q) <= MaxPort

\* The three forms with a port, each with its host part and port part.
IsPortOnly(s) == s = <<>> \/ AllDigits(s) \/ IsNegative(s)
IsHostPort(s) == ~Bracketed(s) /\ ColonsIn(s) = 1
ColonAt(s) == CHOOSE i \in DOMAIN s : s[i] = ":"
IsBracketPort(s) ==
    /\ Bracketed(s)
    /\ \E e \in DOMAIN s :
           s[e] = "]" /\ e + 1 \in DOMAIN s /\ s[e + 1] = ":"
           /\ \A j \in 1..(e - 1) : s[j] # "]"
BracketAt(s) == CHOOSE e \in DOMAIN s : s[e] = "]" /\ \A j \in 1..(e - 1) : s[j] # "]"

\* A host without a port: a name or an IPv4 address ...
IsPlainHost(s) ==
    s # <<>> /\ ~Bracketed(s) /\ ColonsIn(s) = 0 /\ ~AllDigits(s) /\ ~IsNegative(s)
\* ... or an unbracketed address with 2 to 7 colons.
IsBareColons(s) == ~Bracketed(s) /\ ColonsIn(s) >= 2 /\ ColonsIn(s) <= 7

\* Unbracketed IPv6 addresses in text form, with 2 to 7 colons.
BareIPv6Samples ==
    {<<":", ":", "1">>,
     <<"1", ":", "2", ":", "3", ":", "4", ":", "5", ":", "6", ":", "7", ":", "8">>,
     <<":", ":", "f", "f", "f", "f", ":", "1", ".", "2", ".", "3", ".", "4">>}

\* C24 as stated, for its last part: an unbracketed IPv6 address with 2 to 7
\* colons and no port is returned as host only.
C24_Original ==
    (parsed # NotParsed /\ spec \in BareIPv6Samples) => parsed = HostOnly(spec)

\* C24: a returned port lies in 1..65535; in each of the forms port only,
\* host:port and [ipv6]:port a bad port part (empty, negative, above 65535,
\* not decimal) is rejected with an error and a good one is returned; a
\* name or IPv4 address without a port, and an unbracketed address with 2 to
\* 7 colons and no dot, is returned as host only.
C24_PortRangeAndForms ==
    parsed # NotParsed =>
        /\ (parsed.tag = "ok" /\ parsed.hasPort) =>
               parsed.port >= 1 /\ parsed.port <= MaxPort
        /\ IsPortOnly(spec) =>
               IF ValidPort(spec)
               THEN parsed = PortOnly(ValueOf(spec))
               ELSE parsed.tag = "error"
        /\ IsHostPort(spec) =>
               LET c == ColonAt(spec)
                   q == SubSeq(spec, c + 1, Len(spec))
               IN  IF ValidPort(q) /\ c > 1
                   THEN parsed = HostAndPort(SubSeq(spec, 1, c - 1), ValueOf(q))
                   ELSE parsed.tag = "error"
        /\ IsBracketPort(spec) =>
               LET e == BracketAt(spec)
                   q == SubSeq(spec, e + 2, Len(spec))
               IN  IF ValidPort(q)
                   THEN parsed = HostAndPort(SubSeq(spec, 2, e - 1), ValueOf(q))
                   ELSE parsed.tag = "error"
        /\ IsPlainHost(spec) => parsed = HostOnly(spec)
        /\ (IsBareColons(spec) /\ ~HasDot(spec)) => parsed = HostOnly(spec)
        /\ (IsBareColons(spec) /\ HasDot(spec)) => parsed.tag = "error"

C24_Witness ==
    /\ parsed = HostOnly(spec)
    /\ ColonsIn(spec) = 7
    /\ Len(spec) = 15

C24_WitnessBadPort ==
    /\ IsBracketPort(spec)
    /\ SubSeq(spec, BracketAt(spec) + 2, Len(spec)) = <<"6", "5", "5", "3", "6">>
    /\ parsed.tag = "error"

---------------------------------------------------------------------------
\* Further properties of RendererController (specification SpecRF)

ActiveLoops == loops.started - loops.ended
LoopsBefore(k) == IF k = 1 THEN 0 ELSE writes[k - 1].loops.started

\* C25: at most one #draw call is active at any time, and #drawTask says
\* whether one is; a write that finds a loop active starts none, and a write
\* starts a loop only when every loop started before has ended.
C25_AtMostOneDrawLoop ==
    /\ ActiveLoops = IF drawTask = "running" THEN 1 ELSE 0
    /\ \A k \in DOMAIN writes :
           /\ writes[k].busy => writes[k].loops.started = LoopsBefore(k)
           /\ ~writes[k].busy =>
                  /\ writes[k].loops.started = LoopsBefore(k) + 1
                  /\ writes[k].loops.ended = LoopsBefore(k)

C25_Witness ==
    /\ Len(writes) = 4
    /\ ~writes[1].busy
    /\ writes[2].busy
    /\ ~writes[3].busy
    /\ writes[4].busy
    /\ loops = [started |-> 2, ended |-> 1]
    /\ drawTask = "running"

\* C26: whenever the slot holds a frame, a draw loop is active and suspended
\* in enqueue(), so it will look at the slot again; equivalently, whenever
\* #drawTask is clear the slot is empty, in every state and for every
\* interleaving of writes with the loop's suspension points.
C26_SlotImpliesActiveLoop ==
    /\ nextFrame # 0 =>
           /\ drawTask = "running"
           /\ drawing # 0
           /\ enq \in {"waiting", "true", "false"}
           /\ vframes[nextFrame].closed = 0
    /\ drawTask = "none" => nextFrame = 0 /\ drawing = 0 /\ enq = "none"

C26_Witness ==
    /\ Len(handed) = 2
    /\ Len(writes) = 3
    /\ loops = [started |-> 1, ended |-> 0]
    /\ nextFrame = writes[3].frame
    /\ drawing = writes[2].frame
    /\ Delivered(writes[1].frame)
    /\ disposals = 0

---------------------------------------------------------------------------
\* Further properties of TaskQueue (specification Spec)

\* Task b was chained on a promise in #ready that is rejected: it was
\* submitted to a poisoned queue.
SubmittedPoisoned(b) ==
    /\ tasks[b].via = "chain"
    /\ tasks[b].prev # 0
    /\ IsRejected(tasks[tasks[b].prev].rdy)

\* C27: in a queue that is not disposed, a task submitted to a poisoned queue
\* is never invoked and fails with the poisoning failure; if it is bail=false
\* the promise it leaves in #ready is fulfilled and the task submitted next
\* is invoked, if it is bail=true that promise is rejected with the same
\* failure and the task submitted next is skipped as well.
C27_NonBailClearsPoison ==
    ~disposed =>
        \A b \in DOMAIN tasks : SubmittedPoisoned(b) =>
            LET poison == tasks[tasks[b].prev].rdy
            IN  /\ ~tasks[b].invoked
                /\ tasks[b].st = "done" => tasks[b].res = poison
                /\ IsSettled(tasks[b].rdy) =>
                       tasks[b].rdy = IF tasks[b].bail THEN poison ELSE Fulfilled
                /\ \A c \in DOMAIN tasks :
                       (tasks[c].via = "chain" /\ tasks[c].prev = b
                            /\ tasks[c].st = "done")
                       => /\ tasks[c].invoked <=> ~tasks[b].bail
                          /\ tasks[b].bail => tasks[c].res = poison
                          /\ ~tasks[b].bail => OwnResult(c)

C27_Witness ==
    /\ ~disposed
    /\ Len(tasks) = 4
    /\ tasks[1].bail /\ tasks[1].res = Rejected(1)
    /\ tasks[2].bail /\ SubmittedPoisoned(2) /\ tasks[2].res = Rejected(1)
    /\ ~tasks[3].bail /\ SubmittedPoisoned(3) /\ tasks[3].res = Rejected(1)
    /\ ~tasks[3].invoked
    /\ tasks[3].rdy = Fulfilled
    /\ tasks[4].prev = 3 /\ tasks[4].invoked /\ tasks[4].res = Fulfilled

\* C28: a task whose body had started when dispose() was called is not
\* cancelled: it stays running until its own promise settles, and its caller
\* gets the task's own result or failure; no invoked task ever fails with
\* the disposed-queue error.
C28_DisposeKeepsRunningTask ==
    /\ \A i \in DOMAIN tasks :
           tasks[i].atDispose = "running" =>
               /\ tasks[i].invoked
               /\ tasks[i].st \in {"running", "done"}
               /\ tasks[i].st = "done" => OwnResult(i)
               /\ tasks[i].st = "running" => tasks[i].res = Pending
    /\ \A i \in DOMAIN tasks :
           tasks[i].invoked => tasks[i].res # DisposedError

C28_Witness ==
    /\ disposed
    /\ \E i, j \in DOMAIN tasks :
          /\ tasks[i].atDispose = "running"
          /\ tasks[i].st = "done"
          /\ tasks[i].res = Rejected(i)
          /\ tasks[j].atDispose = "queued"
          /\ tasks[j].st = "done"
          /\ tasks[j].res = DisposedError

---------------------------------------------------------------------------
\* Further properties of RedrawController (specification SpecRC)

RedrawTasks == {i \in DOMAIN tasks : tasks[i].kind = "redraw"}

\* C29: a redraw task that passes its cancellation check always finds
\* #lastFrame present (it never fails before reaching the callback), and the
\* frame it hands to the callback is a fresh clone with the content of the
\* frame passed to the most recent draw() call.
C29_RedrawDrawsLatest ==
    /\ \A i \in RedrawTasks :
           tasks[i].res = Rejected(i) => tasks[i].cb \in {"threw", "fail"}
    /\ \A k \in DOMAIN cbLog :
           cbLog[k].task \in RedrawTasks =>
               /\ cbLog[k].latest # 0
               /\ frames[cbLog[k].frame].content = cbLog[k].latest
               /\ frames[cbLog[k].frame].role = "redraw"

C29_Witness ==
    \E k \in DOMAIN cbLog :
        /\ cbLog[k].task \in RedrawTasks
        /\ cbLog[k].latest # 0
        /\ frames[cbLog[k].frame].content = cbLog[k].latest
        /\ \E a, b \in DOMAIN calls :
              /\ a < b
              /\ calls[a].op = "draw" /\ calls[b].op = "draw"
              /\ frames[calls[b].frame].content = cbLog[k].latest
        /\ tasks[cbLog[k].task].res = Fulfilled
        /\ disposed

---------------------------------------------------------------------------
\* Frame accounting of RendererController (specification SpecRF)

\* The places an input frame is in: the slot, the draw loop (handed to
\* enqueue(), which has not resolved to true), the consumer, or released by
\* one of the three statements that close an input frame.
Places(f) ==
    {p \in {"slot", "flight", "consumer", "skipped", "cancelled", "disposed"} :
        CASE p = "slot" -> nextFrame = f
          [] p = "flight" -> drawing = f /\ enq \in {"waiting", "false"}
          [] p = "consumer" -> Delivered(f)
          [] OTHER -> vframes[f].closed > 0 /\ vframes[f].how = p}

OnePlaceEach ==
    \A f \in InputFrames :
        /\ Cardinality(Places(f)) = 1
        /\ vframes[f].closed <= 1
        /\ vframes[f].closed = 1 <=>
               Places(f) \subseteq {"skipped", "cancelled", "disposed"}

AcceptedByConsumer == {f \in InputFrames : Delivered(f)}
ReplacedInSlot == {k \in DOMAIN writes : writes[k].replaced # 0}

\* The frame the consumer has taken while #draw has not yet resumed from
\* `await enqueue(frame)`.
NotYetCounted == IF enq = "true" THEN 1 ELSE 0

\* C30 as stated: every input frame is in exactly one place, the rendered
\* counter equals the number of frames the consumer accepted, and the skipped
\* counter equals the number of frames replaced in the slot.
C30_Original ==
    /\ OnePlaceEach
    /\ rendered = Cardinality(AcceptedByConsumer)
    /\ skipped = Cardinality(ReplacedInSlot)

\* C30: every input frame is in exactly one place; the skipped counter equals
\* the number of frames replaced in the slot by a later write; the rendered
\* counter equals the number of frames the consumer accepted, less the one
\* frame whose acceptance the draw loop has not yet resumed from.
C30_FrameAccounting ==
    /\ OnePlaceEach
    /\ rendered + NotYetCounted = Cardinality(AcceptedByConsumer)
    /\ skipped = Cardinality(ReplacedInSlot)
    /\ Cardinality(ReplacedInSlot)
           = Cardinality({f \in InputFrames : Places(f) = {"skipped"}})

C30_Witness ==
    /\ enq = "true"
    /\ rendered = 1
    /\ Cardinality(AcceptedByConsumer) = 2
    /\ skipped = 1
    /\ nextFrame # 0
    /\ \E f \in InputFrames : Places(f) = {"skipped"}

---------------------------------------------------------------------------
\* Properties of TangoIndexedDbStorage (specification SpecDb)

\* The operations that got as far as calling createTransaction.
Transacting == {i \in DOMAIN ops : ops[i].txn > 0}

\* C31: every operation that runs a transaction runs it on an open
\* connection; none uses the memoized connection after an earlier
\* operation has closed it.
C31_TransactionOnOpenConnection ==
    \A i \in Transacting : ops[i].conn = "open"

\* The load() calls that ran createTransaction on an open connection.
Loads == {i \in Transacting : ops[i].op = "load" /\ ops[i].conn = "open"}

\* C32: a load() that has ended has yielded exactly the keys in the store
\* (those saved before and those migrated from a version-1 database);
\* createTransaction does not reject the callback of load() or of
\* getAllKeysV1 but resolves with its result when the transaction completes.
C32_LoadRoundTrip ==
    /\ \A i \in Loads :
           /\ ops[i].tx # "aborted"
           /\ ops[i].pc = "done" =>
                  /\ ops[i].out = "ok"
                  /\ ops[i].yielded = ops[i].stored
    /\ core.pc = "done" =>
           /\ core.error = "none"
           /\ openDatabasePromise = "fulfilled"
           /\ ~v1Database.exists

====
